---- MODULE Spec2Model ----
(***************************************************************************)
(* Model of examples/mnist/mnist_pytorch.ipynb: the notebook's code cells  *)
(* run in order (data loading, training driver, prediction, ONNX export,   *)
(* input.cairo writer) and the quantize-and-render helpers of cell 13.     *)
(*                                                                         *)
(* Numbers.  A Python float is a dyadic rational; a value is the record    *)
(* [n |-> numerator, e |-> exponent] standing for n / 2^e.  Multiplying by *)
(* 2**bits is exact in binary floating point, and round() on a float is    *)
(* exact round-half-to-even, so the model computes with integers only.     *)
(*                                                                         *)
(* Text.  A Python str is the sequence of its characters.                  *)
(***************************************************************************)
EXTENDS Integers, Sequences, FiniteSets

VARIABLES
    pc,             \* the notebook step that runs next
    example_data,   \* cell 3: the batch (of one flattened image) drawn from test_loader
    network,        \* cell 5: [defined, training], training being nn.Module.training
    optimizer,      \* cell 5: [defined, steps], steps counting optimizer.step()
    train_losses,   \* cell 6: the logged losses
    train_counter,  \* cell 6: the logged sample counters
    i,              \* cell 7: the next value range(10) yields
    batch_idx,      \* train: the next index enumerate(train_loader) yields
    perm,           \* train: the order shuffle=True drew for this epoch
    visited,        \* train: the samples the current call has been fed, in order
    calls,          \* the train / eval / export calls made so far, in order
    input_cairo,    \* cell 13: the rendered literals
    input_file,     \* cell 13: the text of mnist_cairo/src/input.cairo
    helper_call     \* the latest call of a cell-13 helper: its arguments and result

vars ==
    << pc, example_data, network, optimizer, train_losses, train_counter, i,
       batch_idx, perm, visited, calls, input_cairo, input_file,
       helper_call >>

notebook_vars ==
    << pc, example_data, network, optimizer, train_losses, train_counter, i,
       batch_idx, perm, visited, calls, input_cairo, input_file >>

-----------------------------------------------------------------------------
(* Bounds of the model *)

MaxNum == 5
MaxExp == 18
MaxBits == 17
MaxLen == 2
NumBatches == 3
NumTest == 2

(* Constants of the notebook *)

log_interval == 10000
Epochs == 10
ResizeH == 14
ResizeW == 14
FracBits == 16
CounterScale == 64

-----------------------------------------------------------------------------
(* Arithmetic *)

RECURSIVE Pow2(_)
Pow2(k) == IF k = 0 THEN 1 ELSE 2 * Pow2(k - 1)

Abs(x) == IF x < 0 THEN -x ELSE x

\* Python's round(x) for the float x = num / den, den > 0: the nearest integer,
\* a tie going to the even neighbour.
round(num, den) ==
    LET f == num \div den
        r == num - f * den
    IN  IF 2 * r < den THEN f
        ELSE IF 2 * r > den THEN f + 1
        ELSE IF f % 2 = 0 THEN f ELSE f + 1

round_truncating(num, den) ==
    IF num >= 0 THEN num \div den ELSE -((-num) \div den)

to_fixed_point_truncating(val, bits) ==
    round_truncating(val.n * Pow2(bits), Pow2(val.e))

\* def to_fixed_point(val, bits): return round(val * (2**bits))
to_fixed_point(val, bits) ==
    round(val.n * Pow2(bits), Pow2(val.e))

mnist_image_to_fixed_point_skipping(data) ==
    [k \in 1..(Len(data) - 1) |-> to_fixed_point(data[k + 1], FracBits)]

\* [to_fixed_point(val.item(), 16) for val in data]
mnist_image_to_fixed_point(data) ==
    [k \in 1..Len(data) |-> to_fixed_point(data[k], FracBits)]

-----------------------------------------------------------------------------
(* Text *)

Digits == << "0", "1", "2", "3", "4", "5", "6", "7", "8", "9" >>

RECURSIVE NatToStr(_)
NatToStr(x) ==
    IF x < 10 THEN << Digits[x + 1] >>
    ELSE NatToStr(x \div 10) \o << Digits[(x % 10) + 1] >>

\* str(x) of a Python int, as the f-string's {val} formats it
IntToStr(x) == IF x < 0 THEN << "-" >> \o NatToStr(-x) ELSE NatToStr(x)

LiteralPrefix ==
    << "F", "i", "x", "e", "d", "T", "r", "a", "i", "t", ":", ":", "<", "F", "P", "1",
       "6", "x", "1", "6", ">", ":", ":", "n", "e", "w", "(" >>

FieldSeparator == << ",", " " >>

LiteralSuffix == << ")" >>

TrueText == << "t", "r", "u", "e" >>

FalseText == << "f", "a", "l", "s", "e" >>

Separator == << ",", "\n", " " >>

\* 'true' if val < 0 else 'false'
SignText(val) == IF val < 0 THEN TrueText ELSE FalseText

\* f"FixedTrait::<FP16x16>::new({val}, {'true' if val < 0 else 'false'})"
Literal(val) ==
    LiteralPrefix \o IntToStr(val) \o FieldSeparator \o SignText(val) \o LiteralSuffix

RECURSIVE JoinTrailing(_, _)
JoinTrailing(sep, strs) ==
    IF Len(strs) = 0 THEN << >>
    ELSE IF Len(strs) = 1 THEN strs[1] \o sep
    ELSE LET h == Len(strs) \div 2
         IN  JoinTrailing(sep, SubSeq(strs, 1, h))
                 \o JoinTrailing(sep, SubSeq(strs, h + 1, Len(strs)))

\* sep.join(strs): the strings in order, sep between each two neighbours (computed
\* by halves, which keeps the evaluation shallow for 196 strings)
RECURSIVE Join(_, _)
Join(sep, strs) ==
    IF Len(strs) = 0 THEN << >>
    ELSE IF Len(strs) = 1 THEN strs[1]
    ELSE LET h == Len(strs) \div 2
         IN  Join(sep, SubSeq(strs, 1, h)) \o sep
                 \o Join(sep, SubSeq(strs, h + 1, Len(strs)))

\* def generate_input_cairo(data)
generate_input_cairo(data) ==
    LET values == mnist_image_to_fixed_point(data)
        texts == [k \in 1..Len(values) |-> Literal(values[k])]
    IN  Join(Separator, texts)

-----------------------------------------------------------------------------
(* The input.cairo text of cell 13 *)

FileHeader ==
    << "\n", "u", "s", "e", " ", "a", "r", "r", "a", "y", ":", ":", "{", "S", "p", "a",
       "n", "T", "r", "a", "i", "t", ",", " ", "A", "r", "r", "a", "y", "T", "r", "a",
       "i", "t", "}", ";", "\n", "u", "s", "e", " ", "o", "r", "i", "o", "n", ":", ":",
       "o", "p", "e", "r", "a", "t", "o", "r", "s", ":", ":", "t", "e", "n", "s", "o",
       "r", ":", ":", "{", "T", "e", "n", "s", "o", "r", "T", "r", "a", "i", "t", ",",
       " ", "F", "P", "1", "6", "x", "1", "6", "T", "e", "n", "s", "o", "r", ",", " ",
       "T", "e", "n", "s", "o", "r", "}", ";", "\n", "u", "s", "e", " ", "o", "r", "i",
       "o", "n", ":", ":", "n", "u", "m", "b", "e", "r", "s", ":", ":", "{", "F", "i",
       "x", "e", "d", "T", "r", "a", "i", "t", ",", " ", "F", "P", "1", "6", "x", "1",
       "6", "}", ";", "\n", "f", "n", " ", "i", "n", "p", "u", "t", "(", ")", " ", "-",
       ">", " ", "T", "e", "n", "s", "o", "r", "<", "F", "P", "1", "6", "x", "1", "6",
       ">", " ", "{", "\n", " ", " ", " ", " ", "T", "e", "n", "s", "o", "r", "T", "r",
       "a", "i", "t", ":", ":", "<", "F", "P", "1", "6", "x", "1", "6", ">", ":", ":",
       "n", "e", "w", "(", "\n", " ", " ", " ", " ", " ", " ", " ", " ", "a", "r", "r",
       "a", "y", "!", "[", "1", "9", "6", "]", ".", "s", "p", "a", "n", "(", ")", ",",
       "\n", " ", " ", " ", " ", " ", " ", " ", " ", "a", "r", "r", "a", "y", "!", "[",
       "\n", " ", " ", " ", " " >>

FileFooter ==
    << "\n", " ", " ", " ", " ", " ", " ", " ", " ", "]", ".", "s", "p", "a", "n", "(",
       ")", "\n", " ", " ", " ", " ", ")", "\n", "}", "\n", " ", " ", " ", " " >>

\* with open(..., "w") as f: f.write(header); f.write(input_cairo); f.write(footer)
WriteInputFile(text) == FileHeader \o text \o FileFooter

-----------------------------------------------------------------------------
(* The datasets.  A pixel after ToTensor and Resize is a float in [0, 1]. *)

Palette ==
    << [n |-> 0, e |-> 0], [n |-> 1, e |-> 0], [n |-> 1, e |-> 1],
       [n |-> 1, e |-> 17], [n |-> 3, e |-> 17], [n |-> 255, e |-> 8] >>

\* Resize((14, 14)) then torch.flatten: a vector of 14 * 14 elements
FlattenedLen == ResizeH * ResizeW

\* the t-th image of the test set, transformed
TestImage(t) ==
    [j \in 1..FlattenedLen |-> Palette[((t * j + t) % Len(Palette)) + 1]]

\* shuffle=True: an epoch's order is any permutation of the samples
Permutations ==
    { p \in [1..NumBatches -> 1..NumBatches] :
        \A a, b \in 1..NumBatches : p[a] = p[b] => a = b }

\* A helper call on record: the function, its arguments (val and bits, or data)
\* and its result (q: an int, qs: a list of ints, text: a str)
NoCall ==
    [fn |-> "none", val |-> [n |-> 0, e |-> 0], bits |-> 0, data |-> << >>,
     q |-> 0, qs |-> << >>, text |-> << >>]

FixedCall(val, bits, q) ==
    [NoCall EXCEPT !.fn = "to_fixed_point", !.val = val, !.bits = bits, !.q = q]

ImageCall(data, qs) ==
    [NoCall EXCEPT !.fn = "mnist_image_to_fixed_point", !.data = data, !.qs = qs]

GenerateCall(data, text) ==
    [NoCall EXCEPT !.fn = "generate_input_cairo", !.data = data, !.text = text]

TrainCall(epoch) == [op |-> "train", epoch |-> epoch]

EvalCall == [op |-> "eval", epoch |-> -1]

ExportCall(training) == [op |-> "export", epoch |-> -1, training |-> training]

-----------------------------------------------------------------------------
(* The notebook, its code cells run in order *)

Init ==
    /\ pc = "cell1"
    /\ example_data = << >>
    /\ network = [defined |-> FALSE, training |-> FALSE]
    /\ optimizer = [defined |-> FALSE, steps |-> 0]
    /\ train_losses = << >>
    /\ train_counter = << >>
    /\ i = 0
    /\ batch_idx = 0
    /\ perm = << >>
    /\ visited = << >>
    /\ calls = << >>
    /\ input_cairo = << >>
    /\ input_file = << >>
    /\ helper_call = NoCall

\* cell 1: imports and settings
Cell1 ==
    /\ pc = "cell1"
    /\ pc' = "cell2"
    /\ UNCHANGED << example_data, network, optimizer, train_losses, train_counter, i,
                    batch_idx, perm, visited, calls, input_cairo, input_file,
                    helper_call >>

\* cell 2: train_loader and test_loader
Cell2 ==
    /\ pc = "cell2"
    /\ pc' = "cell3"
    /\ UNCHANGED << example_data, network, optimizer, train_losses, train_counter, i,
                    batch_idx, perm, visited, calls, input_cairo, input_file,
                    helper_call >>

\* cell 3: batch_idx, (example_data, example_targets) = next(enumerate(test_loader))
Cell3 ==
    /\ pc = "cell3"
    /\ \E t \in 1..NumTest : example_data' = << TestImage(t) >>
    /\ pc' = "cell4"
    /\ UNCHANGED << network, optimizer, train_losses, train_counter, i, batch_idx,
                    perm, visited, calls, input_cairo, input_file,
                    helper_call >>

\* cell 4: class Net
Cell4 ==
    /\ pc = "cell4"
    /\ pc' = "cell5"
    /\ UNCHANGED << example_data, network, optimizer, train_losses, train_counter, i,
                    batch_idx, perm, visited, calls, input_cairo, input_file,
                    helper_call >>

\* cell 5: network = Net(); optimizer = optim.SGD(...).  A new module is in
\* training mode.
Cell5 ==
    /\ pc = "cell5"
    /\ network' = [defined |-> TRUE, training |-> TRUE]
    /\ optimizer' = [defined |-> TRUE, steps |-> 0]
    /\ pc' = "cell6"
    /\ UNCHANGED << example_data, train_losses, train_counter, i, batch_idx, perm,
                    visited, calls, input_cairo, input_file,
                    helper_call >>

\* cell 6: train_losses = []; train_counter = []; def train
Cell6 ==
    /\ pc = "cell6"
    /\ train_losses' = << >>
    /\ train_counter' = << >>
    /\ i' = 0
    /\ pc' = "cell7"
    /\ UNCHANGED << example_data, network, optimizer, batch_idx, perm, visited,
                    calls, input_cairo, input_file,
                    helper_call >>

\* range(n) yields k while k < n
RangeHasNext(k, n) == k < n

DriverNextSkipping ==
    /\ pc = "cell7"
    /\ RangeHasNext(i, Epochs)
    /\ network' = [network EXCEPT !.training = TRUE]
    /\ \E p \in Permutations : perm' = p
    /\ batch_idx' = 0
    /\ visited' = << >>
    /\ calls' = Append(calls, TrainCall(i))
    /\ i' = i + 1
    /\ pc' = "train"
    /\ UNCHANGED << example_data, optimizer, train_losses, train_counter,
                    input_cairo, input_file, helper_call >>

\* cell 7, for i in range(10): train(i) -- the call, up to the first batch:
\* network.train() and the start of enumerate(train_loader)
DriverNext ==
    /\ pc = "cell7"
    /\ RangeHasNext(i, Epochs)
    /\ network' = [network EXCEPT !.training = TRUE]
    /\ \E p \in Permutations : perm' = p
    /\ batch_idx' = 0
    /\ visited' = << >>
    /\ calls' = Append(calls, TrainCall(i))
    /\ pc' = "train"
    /\ UNCHANGED << example_data, optimizer, train_losses, train_counter, i,
                    input_cairo, input_file,
                    helper_call >>

\* train, one iteration of the batch loop
TrainBatch ==
    /\ pc = "train"
    /\ RangeHasNext(batch_idx, NumBatches)
    /\ optimizer' = [optimizer EXCEPT !.steps = @ + 1]
    /\ visited' = Append(visited, perm[batch_idx + 1])
    /\ IF batch_idx % log_interval = 0
       THEN /\ train_losses' = Append(train_losses, << i, batch_idx >>)
            /\ train_counter' =
                   Append(train_counter,
                          (batch_idx * CounterScale) + ((i - 1) * NumBatches))
       ELSE UNCHANGED << train_losses, train_counter >>
    /\ batch_idx' = batch_idx + 1
    /\ UNCHANGED << pc, example_data, network, i, perm, calls, input_cairo,
                    input_file,
                    helper_call >>

\* train returns when train_loader is exhausted; the driver takes the next i
TrainReturn ==
    /\ pc = "train"
    /\ ~RangeHasNext(batch_idx, NumBatches)
    /\ i' = i + 1
    /\ pc' = "cell7"
    /\ UNCHANGED << example_data, network, optimizer, train_losses, train_counter,
                    batch_idx, perm, visited, calls, input_cairo, input_file,
                    helper_call >>

\* cell 7 ends when range(10) is exhausted
DriverExit ==
    /\ pc = "cell7"
    /\ ~RangeHasNext(i, Epochs)
    /\ pc' = "cell8"
    /\ UNCHANGED << example_data, network, optimizer, train_losses, train_counter, i,
                    batch_idx, perm, visited, calls, input_cairo, input_file,
                    helper_call >>

Cell8NoEval ==
    /\ pc = "cell8"
    /\ pc' = "cell9"
    /\ UNCHANGED << example_data, network, optimizer, train_losses, train_counter, i,
                    batch_idx, perm, visited, calls, input_cairo, input_file,
                    helper_call >>

\* cell 8: network.eval(); pred = network(example_data) under no_grad
Cell8 ==
    /\ pc = "cell8"
    /\ network' = [network EXCEPT !.training = FALSE]
    /\ calls' = Append(calls, EvalCall)
    /\ pc' = "cell9"
    /\ UNCHANGED << example_data, optimizer, train_losses, train_counter, i,
                    batch_idx, perm, visited, input_cairo, input_file,
                    helper_call >>

\* cell 9: torch.onnx.export(network, example_data, "mnist_pytorch.onnx")
Cell9 ==
    /\ pc = "cell9"
    /\ calls' = Append(calls, ExportCall(network.training))
    /\ pc' = "cell13"
    /\ UNCHANGED << example_data, network, optimizer, train_losses, train_counter, i,
                    batch_idx, perm, visited, input_cairo, input_file,
                    helper_call >>

\* cell 13: the helpers' definitions, input_cairo = generate_input_cairo(
\* example_data[0]) and the three writes to mnist_cairo/src/input.cairo
Cell13 ==
    /\ pc = "cell13"
    /\ input_cairo' = generate_input_cairo(example_data[1])
    /\ input_file' = WriteInputFile(input_cairo')
    /\ helper_call' = GenerateCall(example_data[1], input_cairo')
    /\ pc' = "done"
    /\ UNCHANGED << example_data, network, optimizer, train_losses, train_counter, i,
                    batch_idx, perm, visited, calls >>

Next ==
    \/ Cell1
    \/ Cell2
    \/ Cell3
    \/ Cell4
    \/ Cell5
    \/ Cell6
    \/ DriverNext
    \/ TrainBatch
    \/ TrainReturn
    \/ DriverExit
    \/ Cell8
    \/ Cell9
    \/ Cell13

Spec == Init /\ [][Next]_vars

\* cells 1 to 7: everything up to the end of the training driver
RunToTrained ==
    \/ Cell1
    \/ Cell2
    \/ Cell3
    \/ Cell4
    \/ Cell5
    \/ Cell6
    \/ DriverNext
    \/ TrainBatch
    \/ TrainReturn
    \/ DriverExit

\* "Run All" runs each cell to its end and then the next one: a step of cells 1
\* to 7 that can be taken does not wait forever
FairSpec == Init /\ [][Next]_vars /\ WF_vars(RunToTrained)

-----------------------------------------------------------------------------
(* The helpers of cell 13, called on their own.  Their definitions use no  *)
(* name of the notebook, so they can be called in whatever state the       *)
(* notebook is in; here that is the state cells 1 to 6 leave, and the      *)
(* network's mode is switched between the calls.                           *)

FixedVals == { [n |-> a, e |-> b] : a \in (-MaxNum)..MaxNum, b \in 0..MaxExp }

\* -1/2, -1/2^17, 0, 3/2^17, 1
DataVals ==
    { [n |-> -1, e |-> 1], [n |-> -1, e |-> 17], [n |-> 0, e |-> 0],
      [n |-> 3, e |-> 17], [n |-> 1, e |-> 0] }

DataSeqs == UNION { [1..k -> DataVals] : k \in 0..MaxLen }

InitHelpers ==
    /\ pc = "cell7"
    /\ \E t \in 1..NumTest : example_data = << TestImage(t) >>
    /\ network = [defined |-> TRUE, training |-> TRUE]
    /\ optimizer = [defined |-> TRUE, steps |-> 0]
    /\ train_losses = << >>
    /\ train_counter = << >>
    /\ i = 0
    /\ batch_idx = 0
    /\ perm = << >>
    /\ visited = << >>
    /\ calls = << >>
    /\ input_cairo = << >>
    /\ input_file = << >>
    /\ helper_call = NoCall

CallToFixedPoint(val, bits) ==
    /\ helper_call' = FixedCall(val, bits, to_fixed_point(val, bits))
    /\ UNCHANGED notebook_vars

CallMnistImageToFixedPoint(data) ==
    /\ helper_call' = ImageCall(data, mnist_image_to_fixed_point(data))
    /\ UNCHANGED notebook_vars

CallGenerateInputCairoLogging(data) ==
    /\ helper_call' = GenerateCall(data, generate_input_cairo(data))
    /\ train_losses' = Append(train_losses, << i, batch_idx >>)
    /\ UNCHANGED << pc, example_data, network, optimizer, train_counter, i,
                    batch_idx, perm, visited, calls, input_cairo, input_file >>

CallGenerateInputCairo(data) ==
    /\ helper_call' = GenerateCall(data, generate_input_cairo(data))
    /\ UNCHANGED notebook_vars

\* network.train(), as train runs it
NetworkTrain ==
    /\ network.defined
    /\ network' = [network EXCEPT !.training = TRUE]
    /\ UNCHANGED << pc, example_data, optimizer, train_losses, train_counter, i,
                    batch_idx, perm, visited, calls, input_cairo, input_file,
                    helper_call >>

\* network.eval(), as cell 8 runs it
NetworkEval ==
    /\ network.defined
    /\ network' = [network EXCEPT !.training = FALSE]
    /\ UNCHANGED << pc, example_data, optimizer, train_losses, train_counter, i,
                    batch_idx, perm, visited, calls, input_cairo, input_file,
                    helper_call >>

\* one call of a quantizing helper, on any argument
NextFixed ==
    \/ /\ helper_call.fn = "none"
       /\ \E val \in FixedVals, bits \in 0..MaxBits : CallToFixedPoint(val, bits)
    \/ /\ helper_call.fn = "none"
       /\ \E data \in DataSeqs : CallMnistImageToFixedPoint(data)

SpecFixed == InitHelpers /\ [][NextFixed]_vars

\* calls of generate_input_cairo, one after another, the network's mode switched
\* in between
NextHelpers ==
    \/ \E data \in DataSeqs : CallGenerateInputCairo(data)
    \/ NetworkTrain
    \/ NetworkEval

SpecHelpers == InitHelpers /\ [][NextHelpers]_vars

-----------------------------------------------------------------------------
(* C1: to_fixed_point(val, bits) returns an integer q within 1/2 of          *)
(* val * 2^bits, and exactly val * 2^bits when that is an integer;          *)
(* mnist_image_to_fixed_point maps each element v to such a q for           *)
(* v * 65536.  With val = n / 2^e the distance |q - val * 2^bits| <= 1/2 is  *)
(* 2 * |q * 2^e - n * 2^bits| <= 2^e.                                       *)

Nearest(q, num, den) ==
    /\ 2 * Abs(q * den - num) <= den
    /\ (num % den = 0 => q * den = num)

C1_ToFixedPointNearest ==
    /\ helper_call.fn = "to_fixed_point" =>
           Nearest(helper_call.q, helper_call.val.n * Pow2(helper_call.bits),
                   Pow2(helper_call.val.e))
    /\ helper_call.fn = "mnist_image_to_fixed_point" =>
           /\ Len(helper_call.qs) = Len(helper_call.data)
           /\ \A k \in 1..Len(helper_call.data) :
                  Nearest(helper_call.qs[k], helper_call.data[k].n * 65536,
                          Pow2(helper_call.data[k].e))

\* a call with 16 fractional bits whose scaled value is positive, no integer, and
\* rounded up
C1_Witness ==
    /\ helper_call.fn = "to_fixed_point"
    /\ helper_call.bits = 16
    /\ (helper_call.val.n * Pow2(16)) % Pow2(helper_call.val.e) # 0
    /\ helper_call.q * Pow2(helper_call.val.e) > helper_call.val.n * Pow2(16)
    /\ helper_call.val.n > 0

-----------------------------------------------------------------------------
(* Reading the rendered text back *)

\* the places where pat occurs in text
Occurrences(text, pat) ==
    { k \in 1..(Len(text) - Len(pat) + 1) : SubSeq(text, k, k + Len(pat) - 1) = pat }

SetMin(S) == CHOOSE x \in S : \A y \in S : x <= y

\* text.split(sep), for a sep that cannot overlap itself
Split(text, sep) ==
    LET occ == Occurrences(text, sep)
        n == Cardinality(occ)
        at(k) == CHOOSE x \in occ : Cardinality({ y \in occ : y < x }) = k - 1
        from(k) == IF k = 1 THEN 1 ELSE at(k - 1) + Len(sep)
        to(k) == IF k = n + 1 THEN Len(text) ELSE at(k) - 1
    IN  [k \in 1..(n + 1) |-> SubSeq(text, from(k), to(k))]

DigitSet == { Digits[k] : k \in 1..10 }

DigitVal(c) == (CHOOSE k \in 1..10 : Digits[k] = c) - 1

RECURSIVE StrToNat(_)
StrToNat(t) ==
    IF Len(t) = 0 THEN 0
    ELSE 10 * StrToNat(SubSeq(t, 1, Len(t) - 1)) + DigitVal(t[Len(t)])

IsNatText(t) == Len(t) >= 1 /\ \A k \in 1..Len(t) : t[k] \in DigitSet

IsIntText(t) ==
    /\ Len(t) >= 1
    /\ IF t[1] = "-" THEN IsNatText(Tail(t)) ELSE IsNatText(t)

StrToInt(t) == IF t[1] = "-" THEN -StrToNat(Tail(t)) ELSE StrToNat(t)

\* FixedTrait::<FP16x16>::new(<mag>, <sign>) read back: whether the text has that
\* shape, the integer written as mag and the flag written as sign
ParseLiteral(piece) ==
    LET pl == Len(LiteralPrefix)
        commas == { k \in 1..Len(piece) : piece[k] = "," }
        framed ==
            /\ Len(piece) > pl + 3
            /\ SubSeq(piece, 1, pl) = LiteralPrefix
            /\ piece[Len(piece)] = ")"
            /\ commas # {}
        c == SetMin(commas)
        numText == SubSeq(piece, pl + 1, c - 1)
        flagText == SubSeq(piece, c + 2, Len(piece) - 1)
        ok ==
            /\ framed
            /\ c + 2 < Len(piece)
            /\ piece[c + 1] = " "
            /\ IsIntText(numText)
            /\ flagText \in { TrueText, FalseText }
    IN  IF ok
        THEN [ok |-> TRUE, mag |-> StrToInt(numText), sign |-> flagText = TrueText]
        ELSE [ok |-> FALSE, mag |-> 0, sign |-> FALSE]

\* the value a literal stands for: its magnitude, negated when the flag is set
Decode(lit) == IF lit.sign THEN -Abs(lit.mag) ELSE Abs(lit.mag)

\* round(v * 2^16) for the element v
Quantized(v) == round(v.n * 65536, Pow2(v.e))

-----------------------------------------------------------------------------
(* C2: every literal generate_input_cairo emits for an element with          *)
(* quantized value q has the magnitude field |q| and the sign field true     *)
(* exactly when q < 0.                                                       *)

C2_MagnitudeAndSign ==
    helper_call.fn = "generate_input_cairo" /\ Len(helper_call.data) >= 1 =>
        LET pieces == Split(helper_call.text, Separator)
        IN  /\ Len(pieces) = Len(helper_call.data)
            /\ \A k \in 1..Len(pieces) :
                   LET lit == ParseLiteral(pieces[k])
                       q == Quantized(helper_call.data[k])
                   IN  /\ lit.ok
                       /\ lit.mag = Abs(q)
                       /\ lit.sign = (q < 0)

(* C3: generate_input_cairo(data) is, for n >= 1 elements, exactly n         *)
(* literals in order, the i-th standing for the quantized i-th element,     *)
(* with ",\n " between neighbours and none before the first or after the    *)
(* last; for no elements it is the empty string.                            *)

C3_RenderedInOrder ==
    helper_call.fn = "generate_input_cairo" =>
        IF Len(helper_call.data) = 0
        THEN helper_call.text = << >>
        ELSE LET pieces == Split(helper_call.text, Separator)
             IN  /\ Len(pieces) = Len(helper_call.data)
                 /\ \A k \in 1..Len(pieces) :
                        LET lit == ParseLiteral(pieces[k])
                        IN  /\ lit.ok
                            /\ Decode(lit) = Quantized(helper_call.data[k])

\* two elements with different quantized values, the first one negative
C3_Witness ==
    /\ helper_call.fn = "generate_input_cairo"
    /\ Len(helper_call.data) = 2
    /\ Quantized(helper_call.data[1]) < 0
    /\ Quantized(helper_call.data[2]) > 0
    /\ Cardinality(Occurrences(helper_call.text, Separator)) = 1

(* C4: a helper call leaves every notebook variable as it was, and a call    *)
(* with the arguments of the call before it returns that call's result,     *)
(* whatever the notebook did in between.                                    *)

-----------------------------------------------------------------------------
(* C5: the shape input.cairo declares, array![196], is the number of        *)
(* literals written in its data array, and both are the 196 elements of     *)
(* example_data[0].                                                          *)

ShapeOpen == << "a", "r", "r", "a", "y", "!", "[" >>

\* the text of the k-th array![ ... ] of the file, brackets excluded
ArrayBody(text, k) ==
    LET opens == Occurrences(text, ShapeOpen)
        open == CHOOSE x \in opens : Cardinality({ y \in opens : y < x }) = k - 1
        start == open + Len(ShapeOpen)
        close == SetMin({ j \in start..Len(text) : text[j] = "]" })
    IN  SubSeq(text, start, close - 1)

DeclaredShape(text) == StrToNat(ArrayBody(text, 1))

CountLiterals(text) == Cardinality(Occurrences(ArrayBody(text, 2), LiteralPrefix))

C5_ShapeConsistent ==
    pc = "done" =>
        /\ IsNatText(ArrayBody(input_file, 1))
        /\ DeclaredShape(input_file) = CountLiterals(input_file)
        /\ CountLiterals(input_file) = 196
        /\ Len(example_data[1]) = 196

C5_Witness ==
    /\ pc = "done"
    /\ Cardinality(Occurrences(input_file, ShapeOpen)) = 2
    /\ CountLiterals(input_file) = Len(example_data[1])

-----------------------------------------------------------------------------
(* C6: at every torch.onnx.export the network is in evaluation mode: a      *)
(* network.eval() came before it and no train call lies between the two.   *)

C6_EvalAtExport ==
    \A k \in 1..Len(calls) :
        calls[k].op = "export" =>
            /\ ~calls[k].training
            /\ \E j \in 1..(k - 1) :
                   /\ calls[j].op = "eval"
                   /\ \A m \in (j + 1)..(k - 1) : calls[m].op # "train"

C6_Witness ==
    /\ pc = "cell13"
    /\ calls[Len(calls)].op = "export"
    /\ \E k \in 1..Len(calls) : calls[k].op = "train"

-----------------------------------------------------------------------------
(* C7: the driver calls train 10 times, with the epochs 0, 1, ..., 9 in      *)
(* this order, every call feeds each batch of train_loader exactly once,    *)
(* and the loop ends.                                                        *)

IsTrain(c) == c.op = "train"

TrainEpochs == LET tc == SelectSeq(calls, IsTrain) IN [k \in 1..Len(tc) |-> tc[k].epoch]

TimesVisited(b) == Cardinality({ k \in 1..Len(visited) : visited[k] = b })

C7_Counts ==
    /\ Len(TrainEpochs) <= 10
    /\ \A k \in 1..Len(TrainEpochs) : TrainEpochs[k] = k - 1
    /\ \A b \in 1..NumBatches : TimesVisited(b) <= 1
    /\ (pc = "train" /\ batch_idx = NumBatches) \/ (pc = "cell7" /\ i > 0)
           => \A b \in 1..NumBatches : TimesVisited(b) = 1
    /\ pc \in { "cell8", "cell9", "cell13", "done" } =>
           /\ TrainEpochs = << 0, 1, 2, 3, 4, 5, 6, 7, 8, 9 >>
           /\ \A b \in 1..NumBatches : TimesVisited(b) = 1

C7_TenEpochs == []C7_Counts /\ <>(pc = "cell8")

C7_Witness ==
    /\ pc = "cell8"
    /\ Len(TrainEpochs) = 10
    /\ Len(train_losses) = 10

====
